---- MODULE Spec2Model ----
(***************************************************************************)
(* Model of mackup.py: one invocation of the program is a walk of the      *)
(* program counter pc through main(); every filesystem call of backup()    *)
(* and restore() is a step of its own, so that the states between two      *)
(* calls are states of the model.                                          *)
(*                                                                         *)
(* The filesystem holds, for every tracked file, three path slots:         *)
(*   home   - $HOME/<filename>                                              *)
(*   shared - <dropbox>/Mackup/<filename>                                   *)
(*   ext    - one path outside both trees that a symlink may name           *)
(* A slot is absent, a regular file (a directory entry naming an inode) or *)
(* a symbolic link naming another slot. Two slots naming one inode are     *)
(* hard links. File content lives in the inode table, 0 for a free inode.  *)
(***************************************************************************)
EXTENDS Integers, Sequences, FiniteSets, TLC

\* Bound of the model: the number of invocations in a row
MaxRuns == 2

\* inode numbers; a content is named by the inode that first held it
Inos == {1, 2, 3}
Slots == {"home", "shared", "ext"}

BACKUP_MODE == "backup"
RESTORE_MODE == "restore"

\* The application catalog: application name -> list of relative paths
SUPPORTED_APPS == [Bash |-> <<".bashrc">>, Git |-> <<".gitconfig">>]

Apps == DOMAIN SUPPORTED_APPS
Files == UNION {{SUPPORTED_APPS[a][i] : i \in 1..Len(SUPPORTED_APPS[a])} : a \in Apps}

\* The directory that the well-formed locator token decodes to
DropboxPath == "/Dropbox"

VARIABLES
    mode,            \* args.mode
    pc,              \* position in main()
    locator,         \* $HOME/.dropbox/host.db: whether it exists, and its tokens
    dirs,            \* the directories that exist
    fs,              \* fs[f]: the slots and the inode table of tracked file f
    dropbox_folder,  \* Mackup.dropbox_folder
    temp_folder,     \* TRUE while this invocation's temporary folder exists
    stale_temp,      \* temporary folders left behind by earlier invocations
    todo,            \* applications the loop of main() has not visited yet
    files,           \* ApplicationProfile.files of the current application
    idx,             \* position of the loop over files (1-based)
    stderr,          \* what the process wrote on exit: "none", "Error", "Traceback"
    run,             \* number of the invocation
    fs0,             \* the filesystem when this invocation started
    dirs0,           \* the directories when this invocation started
    announced,       \* files for which "Backing up"/"Restoring" was printed
    answers,         \* answers[f]: the answer to the overwrite prompt for f
    home_answer,     \* the answer to the create-Mackup-folder prompt
    touched,         \* files one of whose slots a filesystem call changed
    temp_made,       \* TRUE once this invocation created its temporary folder
    prev             \* what the previous invocation did

vars == <<mode, pc, locator, dirs, fs, dropbox_folder, temp_folder, stale_temp,
          todo, files, idx, stderr, run, fs0, dirs0, announced, answers,
          home_answer, touched, temp_made, prev>>

----------------------------------------------------------------------------
\* Filesystem

Absent == [kind |-> "absent", ino |-> 0, target |-> "none"]
RegFile(i) == [kind |-> "file", ino |-> i, target |-> "none"]
Link(t) == [kind |-> "link", ino |-> 0, target |-> t]

\* stat(2): the inode a path resolves to, following symbolic links; 0 when
\* the path does not exist, dangles or loops. n is the record of one tracked
\* file, d the number of links that may still be followed.
RECURSIVE Stat(_, _, _)
Stat(n, p, d) ==
    IF d = 0 THEN 0
    ELSE IF n[p].kind = "file" THEN n[p].ino
    ELSE IF n[p].kind = "link" THEN Stat(n, n[p].target, d - 1)
    ELSE 0

MaxHops == Cardinality(Slots) + 1

\* os.path.isfile: true when the path resolves to a regular file
isfile(n, p) == Stat(n, p, MaxHops) # 0

\* os.path.islink: true when the path itself is a symbolic link
islink(n, p) == n[p].kind = "link"

\* os.path.samefile: both paths resolve to one inode (callers test isfile first)
samefile(n, p, q) == Stat(n, p, MaxHops) # 0 /\ Stat(n, p, MaxHops) = Stat(n, q, MaxHops)

\* what reading the path yields: the content, or 0 when it cannot be opened
Read(n, p) == IF isfile(n, p) THEN n.data[Stat(n, p, MaxHops)] ELSE 0

\* the slot in which open(path, 'w') ends after following links; "loop" if none
RECURSIVE Final(_, _, _)
Final(n, p, d) ==
    IF d = 0 THEN "loop"
    ELSE IF n[p].kind = "link" THEN Final(n, n[p].target, d - 1)
    ELSE p

Refs(n, i) == {p \in Slots : n[p].kind = "file" /\ n[p].ino = i}

FreshIno(n) == CHOOSE i \in Inos : Refs(n, i) = {} /\ \A j \in Inos : Refs(n, j) = {} => i <= j

Ok(n) == [ok |-> TRUE, n |-> n]
Fail(n) == [ok |-> FALSE, n |-> n]

\* os.remove(path): unlinks the directory entry (never follows a link); the
\* inode is freed with its last name. OSError when there is no entry.
delete(n, p) ==
    IF n[p].kind = "absent" THEN Fail(n)
    ELSE IF n[p].kind = "file" /\ Refs(n, n[p].ino) = {p}
         THEN Ok([n EXCEPT ![p] = Absent, !.data[n[p].ino] = 0])
         ELSE Ok([n EXCEPT ![p] = Absent])

\* shutil.copy(src, dst): Error when both resolve to one file, IOError when
\* src cannot be opened; dst is opened for writing through its links, which
\* truncates the file they reach or creates it.
copy(n, src, dst) ==
    LET s == Stat(n, src, MaxHops)
        t == Final(n, dst, MaxHops)
    IN  IF s = 0 \/ Stat(n, dst, MaxHops) = s \/ t = "loop" THEN Fail(n)
        ELSE IF n[t].kind = "file"
             THEN Ok([n EXCEPT !.data[n[t].ino] = n.data[s]])
             ELSE LET i == FreshIno(n)
                  IN  Ok([n EXCEPT ![t] = RegFile(i), !.data[i] = n.data[s]])

\* os.symlink(target, path): OSError when path has an entry already
symlink(n, target, p) ==
    IF n[p].kind # "absent" THEN Fail(n)
    ELSE Ok([n EXCEPT ![p] = Link(target)])

\* os.path.isdir
isdir(path) == path \in dirs

----------------------------------------------------------------------------
\* Useful functions

Answers == {"Yes", "No"}

\* confirm that takes any answer for a Yes
confirm_any(answer) == answer \in {"Yes", "No"}

\* confirm(question): asks until the answer is Yes or No; answer is that one
confirm(answer) == answer = "Yes"

\* the tokens a locator file may hold: "dbx" decodes to DropboxPath, "junk"
\* decodes to a path that names nothing, "pad" has incorrect padding
Tokens == {"0", "dbx", "junk", "pad"}

b64decode(tok) ==
    IF tok = "dbx" THEN [ok |-> TRUE, val |-> DropboxPath]
    ELSE IF tok = "pad" THEN [ok |-> FALSE, val |-> "none"]
    ELSE [ok |-> TRUE, val |-> "/" \o tok]

\* get_dropbox_folder_location(): IOError, or another exception, or the path
get_dropbox_folder_location ==
    IF ~locator.present THEN [exc |-> "IOError", val |-> "none"]
    ELSE IF Len(locator.tokens) < 2 THEN [exc |-> "IndexError", val |-> "none"]
    ELSE IF ~b64decode(locator.tokens[2]).ok THEN [exc |-> "TypeError", val |-> "none"]
    ELSE [exc |-> "none", val |-> b64decode(locator.tokens[2]).val]

mackup_folder == dropbox_folder \o "/Mackup"

----------------------------------------------------------------------------
\* Initial states: any filesystem over the slots, any locator file

HomeEntries == {Absent, RegFile(1), Link("shared"), Link("ext")}
SharedEntries(h) ==
    {Absent, RegFile(2), Link("home"), Link("ext")}
        \cup (IF h.kind = "file" THEN {RegFile(h.ino)} ELSE {})
ExtEntries == {Absent, RegFile(3)}

\* the inode table holds a content for exactly the inodes that have a name;
\* the program never looks into a file, so every initial file gets a content
\* of its own, which tells the copies apart
Nodes(sharedExists) ==
    {n \in [home : HomeEntries,
            shared : IF sharedExists THEN SharedEntries(Absent) \cup {RegFile(1)}
                     ELSE {Absent},
            ext : ExtEntries,
            data : [Inos -> {0} \cup Inos]] :
        /\ n.shared \in SharedEntries(n.home)
        /\ \A i \in Inos : n.data[i] = IF Refs(n, i) = {} THEN 0 ELSE i}

Locators ==
    {[present |-> FALSE, tokens |-> <<>>]}
        \cup {[present |-> TRUE, tokens |-> t] :
                 t \in {<<>>, <<"0">>, <<"0", "pad">>, <<"0", "junk">>, <<"0", "dbx">>}}

DirStates == {{}, {DropboxPath}, {DropboxPath, DropboxPath \o "/Mackup"}}

NoAnswers == [f \in Files |-> "none"]

NoPrev(f0) == [mode |-> "none", pc |-> "none", answers |-> NoAnswers,
               home_answer |-> "none", fs0 |-> f0]

Init ==
    /\ mode \in {BACKUP_MODE, RESTORE_MODE}
    /\ pc = "start"
    /\ locator \in Locators
    /\ dirs \in DirStates
    /\ fs \in [Files -> Nodes((DropboxPath \o "/Mackup") \in dirs)]
    /\ dropbox_folder = "none"
    /\ temp_folder = FALSE
    /\ stale_temp = 0
    /\ todo = {}
    /\ files = <<>>
    /\ idx = 0
    /\ stderr = "none"
    /\ run = 1
    /\ fs0 = fs
    /\ dirs0 = dirs
    /\ announced = {}
    /\ answers = NoAnswers
    /\ home_answer = "none"
    /\ touched = {}
    /\ temp_made = FALSE
    /\ prev = NoPrev(fs)

----------------------------------------------------------------------------
\* Exits

\* error(message): sys.exit("Error: ...") - the message on stderr, exit at once
error ==
    /\ pc' = "fatal"
    /\ stderr' = "Error"

\* an exception nobody catches: a traceback on stderr, the process ends
crash ==
    /\ pc' = "crashed"
    /\ stderr' = "Traceback"

Terminal == {"done", "fatal", "crashed"}

----------------------------------------------------------------------------
\* Mackup

\* Mackup.__init__: locate the Dropbox folder, then create the temp folder
MackupInit ==
    /\ pc = "start"
    /\ LET loc == get_dropbox_folder_location
       IN  IF loc.exc = "IOError"
           THEN error /\ UNCHANGED <<dropbox_folder, temp_folder, temp_made, todo>>
           ELSE IF loc.exc # "none"
           THEN crash /\ UNCHANGED <<dropbox_folder, temp_folder, temp_made, todo>>
           ELSE /\ dropbox_folder' = loc.val
                /\ temp_folder' = TRUE
                /\ temp_made' = TRUE
                /\ todo' = Apps
                /\ pc' = "check_env"
                /\ UNCHANGED stderr
    /\ UNCHANGED <<mode, locator, dirs, fs, stale_temp, files, idx, run, fs0, dirs0,
                   announced, answers, home_answer, touched, prev>>

\* Mackup._check_for_usable_environment, called first by both env checks
CheckForUsableEnvironment ==
    /\ pc = "check_env"
    /\ IF ~isdir(dropbox_folder)
       THEN error
       ELSE /\ pc' = IF mode = BACKUP_MODE THEN "create_home" ELSE "check_restore"
            /\ UNCHANGED stderr
    /\ UNCHANGED <<mode, locator, dirs, fs, dropbox_folder, temp_folder, stale_temp,
                   todo, files, idx, run, fs0, dirs0, announced, answers,
                   home_answer, touched, temp_made, prev>>

\* create_mackup_home that asks but never calls os.mkdir
CreateMackupHomeNoMkdir ==
    /\ pc = "create_home"
    /\ IF ~isdir(mackup_folder)
       THEN \E a \in Answers :
                /\ home_answer' = a
                /\ IF confirm(a)
                   THEN pc' = "apps" /\ UNCHANGED stderr
                   ELSE error
       ELSE /\ pc' = "apps"
            /\ UNCHANGED <<stderr, home_answer>>
    /\ UNCHANGED <<mode, locator, dirs, fs, dropbox_folder, temp_folder, stale_temp,
                   todo, files, idx, run, fs0, dirs0, announced, answers,
                   touched, temp_made, prev>>

\* Mackup.create_mackup_home, the rest of check_for_usable_backup_env
CreateMackupHome ==
    /\ pc = "create_home"
    /\ IF ~isdir(mackup_folder)
       THEN \E a \in Answers :
                /\ home_answer' = a
                /\ IF confirm(a)
                   THEN /\ dirs' = dirs \cup {mackup_folder}
                        /\ pc' = "apps"
                        /\ UNCHANGED stderr
                   ELSE error /\ UNCHANGED dirs
       ELSE /\ pc' = "apps"
            /\ UNCHANGED <<dirs, stderr, home_answer>>
    /\ UNCHANGED <<mode, locator, fs, dropbox_folder, temp_folder, stale_temp,
                   todo, files, idx, run, fs0, dirs0, announced, answers,
                   touched, temp_made, prev>>

\* the rest of Mackup.check_for_usable_restore_env
CheckForUsableRestoreEnv ==
    /\ pc = "check_restore"
    /\ IF ~isdir(mackup_folder)
       THEN error
       ELSE /\ pc' = "apps"
            /\ UNCHANGED stderr
    /\ UNCHANGED <<mode, locator, dirs, fs, dropbox_folder, temp_folder, stale_temp,
                   todo, files, idx, run, fs0, dirs0, announced, answers,
                   home_answer, touched, temp_made, prev>>

\* Mackup.clean_temp_folder, the last statement of main()
CleanTempFolder ==
    /\ pc = "clean"
    /\ temp_folder' = FALSE
    /\ pc' = "done"
    /\ UNCHANGED <<mode, locator, dirs, fs, dropbox_folder, stale_temp,
                   todo, files, idx, stderr, run, fs0, dirs0, announced, answers,
                   home_answer, touched, temp_made, prev>>

\* main(): for app_name in SUPPORTED_APPS (a dict: the order is arbitrary)
NextApp ==
    /\ pc = "apps"
    /\ IF todo = {}
       THEN /\ pc' = "clean"
            /\ UNCHANGED <<todo, files, idx>>
       ELSE \E app \in todo :
                /\ todo' = todo \ {app}
                /\ files' = SUPPORTED_APPS[app]
                /\ idx' = 1
                /\ pc' = IF mode = BACKUP_MODE THEN "b_check" ELSE "r_check"
    /\ UNCHANGED <<mode, locator, dirs, fs, dropbox_folder, temp_folder, stale_temp,
                   stderr, run, fs0, dirs0, announced, answers,
                   home_answer, touched, temp_made, prev>>

----------------------------------------------------------------------------
\* ApplicationProfile

\* the file the loop over self.files is at
filename == files[idx]

\* the result r of a filesystem call on the current file: the call either
\* changed the file's slots, and the program goes on at next, or it raised
FsCall(r, next) ==
    IF r.ok
    THEN /\ fs' = [fs EXCEPT ![filename] = r.n]
         /\ touched' = touched \cup {filename}
         /\ pc' = next
         /\ UNCHANGED stderr
    ELSE /\ crash
         /\ UNCHANGED <<fs, touched>>

\* backup_needed with every symbolic link in the home taken for a backup
backup_needed_nolinks(n) == isfile(n, "home") /\ ~islink(n, "home")

\* backup_needed without the test for a file that is backed up already
backup_needed_always(n) == isfile(n, "home")

\* backup(), lines 100-104: the file exists and is not already a link
\* pointing to Mackup
backup_needed(n) ==
    /\ isfile(n, "home")
    /\ ~(/\ islink(n, "home")
         /\ isfile(n, "shared")
         /\ ~islink(n, "shared")
         /\ samefile(n, "home", "shared"))

\* backup_overwrites with lstat in place of stat: a link is not followed
backup_overwrites_lstat(n) == n["shared"].kind = "file"

\* backup(), line 109: we already have a backup
backup_overwrites(n) == isfile(n, "shared")

\* backup(): the loop header, the test of lines 100-104, the message and
\* the test of line 109
BackupCheck ==
    /\ pc = "b_check"
    /\ IF idx > Len(files)
       THEN /\ pc' = "apps"
            /\ UNCHANGED <<idx, announced>>
       ELSE IF backup_needed(fs[filename])
       THEN /\ announced' = announced \cup {filename}
            /\ pc' = IF backup_overwrites(fs[filename]) THEN "b_confirm" ELSE "b_copy"
            /\ UNCHANGED idx
       ELSE /\ idx' = idx + 1
            /\ UNCHANGED <<pc, announced>>
    /\ UNCHANGED <<mode, locator, dirs, fs, dropbox_folder, temp_folder, stale_temp,
                   todo, files, stderr, run, fs0, dirs0, answers,
                   home_answer, touched, temp_made, prev>>

\* backup(), line 111: ask before replacing the copy in Mackup
BackupConfirm ==
    /\ pc = "b_confirm"
    /\ \E a \in Answers :
        /\ answers' = [answers EXCEPT ![filename] = a]
        /\ IF confirm(a)
           THEN pc' = "b_delete_shared" /\ UNCHANGED idx
           ELSE pc' = "b_check" /\ idx' = idx + 1
    /\ UNCHANGED <<mode, locator, dirs, fs, dropbox_folder, temp_folder, stale_temp,
                   todo, files, stderr, run, fs0, dirs0, announced,
                   home_answer, touched, temp_made, prev>>

\* backup(), line 115: delete(mackup_filepath)
BackupDeleteShared ==
    /\ pc = "b_delete_shared"
    /\ FsCall(delete(fs[filename], "shared"), "b_copy")
    /\ UNCHANGED <<mode, locator, dirs, dropbox_folder, temp_folder, stale_temp,
                   todo, files, idx, run, fs0, dirs0, announced, answers,
                   home_answer, temp_made, prev>>

\* backup(), lines 117 and 124: shutil.copy(filepath, mackup_filepath)
BackupCopy ==
    /\ pc = "b_copy"
    /\ IF isdir(mackup_folder)
       THEN FsCall(copy(fs[filename], "home", "shared"), "b_delete_home")
       ELSE FsCall(Fail(fs[filename]), "b_delete_home")
    /\ UNCHANGED <<mode, locator, dirs, dropbox_folder, temp_folder, stale_temp,
                   todo, files, idx, run, fs0, dirs0, announced, answers,
                   home_answer, temp_made, prev>>

\* backup(), lines 119 and 126: delete(filepath)
BackupDeleteHome ==
    /\ pc = "b_delete_home"
    /\ FsCall(delete(fs[filename], "home"), "b_symlink")
    /\ UNCHANGED <<mode, locator, dirs, dropbox_folder, temp_folder, stale_temp,
                   todo, files, idx, run, fs0, dirs0, announced, answers,
                   home_answer, temp_made, prev>>

\* backup(), lines 121 and 128: os.symlink(mackup_filepath, filepath)
BackupSymlink ==
    /\ pc = "b_symlink"
    /\ FsCall(symlink(fs[filename], "shared", "home"), "b_check")
    /\ idx' = IF symlink(fs[filename], "shared", "home").ok THEN idx + 1 ELSE idx
    /\ UNCHANGED <<mode, locator, dirs, dropbox_folder, temp_folder, stale_temp,
                   todo, files, run, fs0, dirs0, announced, answers,
                   home_answer, temp_made, prev>>

\* restore_needed with any file in the home taken for a restored one
restore_needed_absent(n) == isfile(n, "shared") /\ ~isfile(n, "home")

\* restore(), lines 152-155: the file exists in Mackup and the home file is
\* not already pointing to it
restore_needed(n) ==
    /\ isfile(n, "shared")
    /\ ~(/\ isfile(n, "home")
         /\ samefile(n, "shared", "home"))

\* restore(), line 160: there is already a file in the home folder
restore_overwrites(n) == isfile(n, "home")

\* restore(): the loop header, the test of lines 152-155, the message and
\* the test of line 160
RestoreCheck ==
    /\ pc = "r_check"
    /\ IF idx > Len(files)
       THEN /\ pc' = "apps"
            /\ UNCHANGED <<idx, announced>>
       ELSE IF restore_needed(fs[filename])
       THEN /\ announced' = announced \cup {filename}
            /\ pc' = IF restore_overwrites(fs[filename]) THEN "r_confirm" ELSE "r_symlink"
            /\ UNCHANGED idx
       ELSE /\ idx' = idx + 1
            /\ UNCHANGED <<pc, announced>>
    /\ UNCHANGED <<mode, locator, dirs, fs, dropbox_folder, temp_folder, stale_temp,
                   todo, files, stderr, run, fs0, dirs0, answers,
                   home_answer, touched, temp_made, prev>>

\* restore(), line 161: ask before replacing the file in the home
RestoreConfirm ==
    /\ pc = "r_confirm"
    /\ \E a \in Answers :
        /\ answers' = [answers EXCEPT ![filename] = a]
        /\ IF confirm(a)
           THEN pc' = "r_delete_home" /\ UNCHANGED idx
           ELSE pc' = "r_check" /\ idx' = idx + 1
    /\ UNCHANGED <<mode, locator, dirs, fs, dropbox_folder, temp_folder, stale_temp,
                   todo, files, stderr, run, fs0, dirs0, announced,
                   home_answer, touched, temp_made, prev>>

\* restore(), line 164: delete(home_filepath)
RestoreDeleteHome ==
    /\ pc = "r_delete_home"
    /\ FsCall(delete(fs[filename], "home"), "r_symlink")
    /\ UNCHANGED <<mode, locator, dirs, dropbox_folder, temp_folder, stale_temp,
                   todo, files, idx, run, fs0, dirs0, announced, answers,
                   home_answer, temp_made, prev>>

\* restore(), lines 165 and 167: os.symlink(mackup_filepath, home_filepath)
RestoreSymlink ==
    /\ pc = "r_symlink"
    /\ FsCall(symlink(fs[filename], "shared", "home"), "r_check")
    /\ idx' = IF symlink(fs[filename], "shared", "home").ok THEN idx + 1 ELSE idx
    /\ UNCHANGED <<mode, locator, dirs, dropbox_folder, temp_folder, stale_temp,
                   todo, files, run, fs0, dirs0, announced, answers,
                   home_answer, temp_made, prev>>

----------------------------------------------------------------------------
\* The program is started again on the filesystem the last invocation left

Rerun ==
    /\ pc \in Terminal
    /\ run < MaxRuns
    /\ mode' \in {BACKUP_MODE, RESTORE_MODE}
    /\ pc' = "start"
    /\ run' = run + 1
    /\ prev' = [mode |-> mode, pc |-> pc, answers |-> answers,
                home_answer |-> home_answer, fs0 |-> fs0]
    /\ stale_temp' = stale_temp + (IF temp_folder THEN 1 ELSE 0)
    /\ temp_folder' = FALSE
    /\ temp_made' = FALSE
    /\ dropbox_folder' = "none"
    /\ todo' = {}
    /\ files' = <<>>
    /\ idx' = 0
    /\ stderr' = "none"
    /\ fs0' = fs
    /\ dirs0' = dirs
    /\ announced' = {}
    /\ answers' = NoAnswers
    /\ home_answer' = "none"
    /\ touched' = {}
    /\ UNCHANGED <<locator, dirs, fs>>

main ==
    \/ MackupInit
    \/ CheckForUsableEnvironment
    \/ CreateMackupHome
    \/ CheckForUsableRestoreEnv
    \/ NextApp
    \/ BackupCheck
    \/ BackupConfirm
    \/ BackupDeleteShared
    \/ BackupCopy
    \/ BackupDeleteHome
    \/ BackupSymlink
    \/ RestoreCheck
    \/ RestoreConfirm
    \/ RestoreDeleteHome
    \/ RestoreSymlink
    \/ CleanTempFolder

Next == main \/ Rerun

Spec == Init /\ [][Next]_vars

----------------------------------------------------------------------------
\* Vocabulary of the properties

\* every prompt of this invocation was answered Yes
AllYes == home_answer # "No" /\ \A f \in Files : answers[f] # "No"

\* the path is a symbolic link that leads to no file
Dangling(n, p) == islink(n, p) /\ ~isfile(n, p)

\* the destination of the mode: what backup and restore may overwrite
Dest == IF mode = BACKUP_MODE THEN "shared" ELSE "home"

FilePcs == {"b_check", "b_confirm", "b_delete_shared", "b_copy", "b_delete_home",
            "b_symlink", "r_check", "r_confirm", "r_delete_home", "r_symlink"}

MackupPath == DropboxPath \o "/Mackup"

C2_Original ==
    (mode = RESTORE_MODE /\ pc = "done" /\ AllYes) =>
        \A f \in Files : fs[f].home = Link("shared")

\* C2 as amended: after a restore that completed with every prompt answered
\* Yes, every tracked path whose shared path resolved to a regular file before
\* the run, and whose home path was then either the symlink to the shared path
\* or no name of that same file, is a symlink in the home to its shared path.
C2_RestoreLinks ==
    (mode = RESTORE_MODE /\ pc = "done" /\ AllYes) =>
        \A f \in Files :
            (/\ isfile(fs0[f], "shared")
             /\ \/ fs0[f].home = Link("shared")
                \/ ~samefile(fs0[f], "shared", "home")) =>
                fs[f].home = Link("shared")

C2_Witness ==
    /\ mode = RESTORE_MODE /\ pc = "done" /\ AllYes
    /\ \E f \in Files :
        /\ answers[f] = "Yes"
        /\ f \in touched
        /\ fs0[f].home.kind = "file"
        /\ fs[f].home = Link("shared")
    /\ \E f \in Files : fs0[f].home = Absent /\ f \in touched

\* C3 as claimed: when backup has run and is run again on the filesystem it
\* left, the second run changes no tracked file and announces no file. It is
\* stated here for the first runs that began without any symbolic link or
\* hard link, the plainest of the initial states the claim speaks of.
C3_Original ==
    (/\ run > 1 /\ prev.mode = BACKUP_MODE /\ prev.pc = "done" /\ mode = BACKUP_MODE
     /\ \A f \in Files :
            /\ ~islink(prev.fs0[f], "home")
            /\ ~islink(prev.fs0[f], "shared")
            /\ ~samefile(prev.fs0[f], "home", "shared")) =>
        touched = {} /\ announced = {}

\* C3 as amended: when a backup completed with every prompt answered Yes and
\* backup is run again on the filesystem it left, the second run neither
\* changes nor announces any tracked file whose shared path did not begin the
\* first run as a dangling symlink.
C3_Idempotent ==
    (/\ run > 1 /\ prev.mode = BACKUP_MODE /\ prev.pc = "done" /\ mode = BACKUP_MODE
     /\ prev.home_answer # "No" /\ \A f \in Files : prev.answers[f] # "No") =>
        \A f \in Files :
            ~Dangling(prev.fs0[f], "shared") => f \notin touched /\ f \notin announced

C3_Witness ==
    /\ run > 1 /\ prev.mode = BACKUP_MODE /\ prev.pc = "done"
    /\ mode = BACKUP_MODE /\ pc = "done"
    /\ \E f \in Files : prev.answers[f] = "Yes" /\ prev.fs0[f] # fs0[f]
    /\ \A f \in Files : ~Dangling(prev.fs0[f], "shared") /\ prev.fs0[f] # fs0[f]
    /\ touched = {} /\ announced = {}

\* C4: a tracked file whose overwrite prompt was answered No has its home
\* path, its shared path and their contents as they were before the run.
C4_DeclineKeeps ==
    \A f \in Files : answers[f] = "No" => fs[f] = fs0[f]

C4_Witness ==
    /\ pc = "done"
    /\ \E f \in Files : answers[f] = "No" /\ isfile(fs[f], "home") /\ isfile(fs[f], "shared")
    /\ touched # {}

\* C5 as claimed: a restore whose shared root exists but holds no Mackup
\* folder ends in the fatal exit, and the filesystem at exit is the one at
\* the start: no tracked path, directory or temporary folder more or less.
C5_Claim ==
    (/\ mode = RESTORE_MODE
     /\ get_dropbox_folder_location.val \in dirs0
     /\ MackupPath \notin dirs0
     /\ pc \in Terminal) =>
        /\ pc = "fatal"
        /\ fs = fs0
        /\ dirs = dirs0
        /\ ~temp_folder

\* C6 as claimed: when the program has ended, normally or by a fatal
\* environment error, a temporary folder it created exists no longer.
C6_Claim ==
    (pc \in {"done", "fatal"} /\ temp_made) => ~temp_folder

\* the environment errors: the locator file is missing or malformed, the
\* shared root is no directory, or a restore finds no Mackup folder
EnvError ==
    \/ get_dropbox_folder_location.exc # "none"
    \/ get_dropbox_folder_location.val \notin dirs0
    \/ mode = RESTORE_MODE /\ MackupPath \notin dirs0

\* C7 as claimed: under every environment error the run ends by the fatal
\* exit with an "Error: <message>" line, and no tracked file is processed.
C7_Claim ==
    EnvError =>
        /\ pc \notin FilePcs \cup {"apps", "clean", "done"}
        /\ announced = {} /\ touched = {}
        /\ pc \in Terminal => pc = "fatal" /\ stderr = "Error"

\* C8: backup readiness comes first. Without the shared root the backup never
\* gets past the check; a No to creating the Mackup folder is fatal and a Yes
\* creates it; and backup works on tracked files only while the Mackup folder
\* is a directory.
C8_BackupReadiness ==
    mode = BACKUP_MODE =>
        /\ pc \in FilePcs \cup {"apps"} => isdir(MackupPath)
        /\ touched # {} \/ announced # {} => isdir(MackupPath)
        /\ home_answer = "No" => pc = "fatal" /\ ~isdir(MackupPath) /\ touched = {}
        /\ home_answer = "Yes" => isdir(MackupPath) /\ MackupPath \notin dirs0
        /\ home_answer # "none" => DropboxPath \in dirs
        /\ (pc \notin {"start", "check_env"} \cup Terminal) => DropboxPath \in dirs
        /\ (DropboxPath \notin dirs /\ pc \in Terminal) => pc \in {"fatal", "crashed"} /\ touched = {}

C8_Witness ==
    /\ mode = BACKUP_MODE /\ pc = "done"
    /\ home_answer = "Yes"
    /\ touched # {}

\* C9: an overwrite prompt is pending only for a file whose destination
\* resolves to a regular file; a file that was announced has been asked about
\* exactly when its destination resolved to a regular file; and a step removes
\* a destination only when the prompt for that file was answered Yes.
C9_PromptState ==
    /\ pc = "b_confirm" => isfile(fs[filename], "shared")
    /\ pc = "r_confirm" => isfile(fs[filename], "home")
    /\ \A f \in Files :
        /\ answers[f] # "none" => f \in announced
        /\ f \in announced =>
            (isfile(fs0[f], Dest) <=>
                \/ answers[f] # "none"
                \/ pc \in {"b_confirm", "r_confirm"} /\ filename = f)
        /\ (f \in touched /\ answers[f] = "none") => ~isfile(fs0[f], Dest)

C9_DeleteStep ==
    \A f \in Files :
        (fs[f][Dest].kind # "absent" /\ fs'[f][Dest].kind = "absent") => answers[f] = "Yes"

C9_ConfirmBeforeOverwrite == [](C9_PromptState) /\ [][C9_DeleteStep]_vars

C9_Witness ==
    /\ \E f \in Files :
        /\ answers[f] = "Yes" /\ fs0[f][Dest].kind = "file" /\ fs[f][Dest].kind = "absent"
    /\ \E f \in Files : answers[f] = "none" /\ f \in touched

\* C10 as claimed: while and after backup works on a file (one it did not
\* skip and whose prompt, if any, was not declined), what the home path held
\* before the run can be read through the home path or the shared path.
C10_Claim ==
    mode = BACKUP_MODE =>
        \A f \in announced :
            answers[f] # "No" =>
                \/ Read(fs[f], "home") = Read(fs0[f], "home")
                \/ Read(fs[f], "shared") = Read(fs0[f], "home")

====
